---- MODULE Spec2Model ----
(***************************************************************************)
(* vrename: batch rename through a text editor.                            *)
(*                                                                         *)
(* NameFile::new writes the names to a temp file, the editor changes the   *)
(* file, NameFile::read_back parses it into an old-name -> new-name map,   *)
(* and vrename renames one file per entry of the map.                      *)
(*                                                                         *)
(* A name, a line and a file's contents are sequences of one-character     *)
(* strings.  Invalid stands for a byte that is not valid UTF-8.            *)
(***************************************************************************)
EXTENDS Naturals, Sequences, FiniteSets

VARIABLES
    file_names,     \* Inputs.file_names / NameFile.file_names: the original names
    fs0,            \* the files on disk when the run starts: name -> content
    fs,             \* the files on disk now: name -> content
    pc,             \* where vrename is: start, edit, read, rename, done, failed
    tempExists,     \* a file exists at NameFile::path()
    pathContent,    \* the bytes of the file at NameFile::path()
    handleContent,  \* the bytes of the file the open handle temp_file refers to
    cursor,         \* the offset of the open handle
    editorStatus,   \* none, launchfail, nonzero, zero
    readResult,     \* none, ok, mismatch, io: how read_back ended
    readContent,    \* the bytes read_back read
    pathAtRead,     \* the bytes at NameFile::path() when read_back read
    new_names,      \* read_back's new_names
    name_map,       \* read_back's result, vrename's name_map
    pending,        \* the keys of name_map the for loop has not visited yet
    renameCount,    \* the fs::rename calls made
    err             \* none, or the error vrename returned

vars == <<file_names, fs0, fs, pc, tempExists, pathContent, handleContent, cursor,
          editorStatus, readResult, readContent, pathAtRead, new_names, name_map,
          pending, renameCount, err>>

(***************************************************************************)
(* Bounds of the model.                                                    *)
(***************************************************************************)
\* the most names a run of vrename is given
MaxNames == 2
\* the most bytes the editor leaves in the file in a run of vrename
MaxEdit == 3
\* the most bytes of an edited file handed to read_back alone
MaxContent == 5
\* the most bytes NameFile::new writes in the round trip
MaxArgBytes == 6
\* the capacity of the BufWriter (8 KiB in std, scaled down)
BufCapacity == 3

Invalid == "0xFF"
Sep == "|"

\* the characters of the names of a run of vrename
FileChars == {"a", "b", "c"}
\* the bytes the editor writes in a run of vrename
EditChars == FileChars \cup {"\n", Invalid}
\* the bytes of an edited file handed to read_back alone
ContentChars == {"a", "b", " ", "\n", Invalid}
\* the characters of the names of the round trip
ArgChars == {"a", " ", "\n"}

Seqs(S, n) == UNION {[1..k -> S] : k \in 0..n}

Min(a, b) == IF a <= b THEN a ELSE b

Range(s) == {s[i] : i \in DOMAIN s}

(***************************************************************************)
(* NameFile::new: the names through a BufWriter into the temp file.        *)
(* failAt = 0: every write to the file succeeds; failAt = n: the n-th      *)
(* write to the file and every later one fail.                             *)
(***************************************************************************)
\* one write_all to the temp file itself
FileWrite(w, chunk, failAt) ==
    LET n == w.writes + 1
    IN IF failAt # 0 /\ n >= failAt
       THEN [w EXCEPT !.writes = n, !.ok = FALSE]
       ELSE [w EXCEPT !.writes = n, !.disk = w.disk \o chunk]

\* BufWriter::flush_buf
FlushBuf(w, failAt) ==
    IF w.buf = <<>> THEN w
    ELSE FileWrite([w EXCEPT !.buf = <<>>], w.buf, failAt)

\* BufWriter::write_all
BufWrite(w, s, failAt) ==
    LET w1 == IF Len(w.buf) + Len(s) > BufCapacity THEN FlushBuf(w, failAt) ELSE w
    IN IF ~w1.ok THEN w1
       ELSE IF Len(s) >= BufCapacity THEN FileWrite(w1, s, failAt)
       ELSE [w1 EXCEPT !.buf = w1.buf \o s]

\* writeln!(temp_writer, "{}", file_name): the name, then the newline
Writeln(w, name, failAt) ==
    LET w1 == BufWrite(w, name, failAt)
    IN IF ~w1.ok THEN w1 ELSE BufWrite(w1, <<"\n">>, failAt)

\* for file_name in file_names { writeln!(..)? }
RECURSIVE WriteNames(_, _, _, _)
WriteNames(names, i, w, failAt) ==
    IF i > Len(names) \/ ~w.ok THEN w
    ELSE WriteNames(names, i + 1, Writeln(w, names[i], failAt), failAt)

NewWriter == [buf |-> <<>>, disk |-> <<>>, writes |-> 0, ok |-> TRUE]

\* the block of NameFile::new: the loop, then temp_writer goes out of scope
\* and BufWriter's drop flushes, its error dropped with it
WriteBlock(names, failAt) ==
    LET w == WriteNames(names, 1, NewWriter, failAt)
    IN [ok |-> w.ok, disk |-> FlushBuf(w, failAt).disk]

\* the writes to the file a run without a failure makes
WritesOf(names) == FlushBuf(WriteNames(names, 1, NewWriter, 0), 0).writes

(***************************************************************************)
(* NameFile::read_back.                                                    *)
(***************************************************************************)
\* read_back without the rewind: everything from the offset the handle is at
ReadFromCursor(bytes, cur) == SubSeq(bytes, cur + 1, Len(bytes))

\* seek(SeekFrom::Start(0)), then everything from there to the end
ReadFrom(bytes, cur) ==
    LET pos == 0
    IN SubSeq(bytes, pos + 1, Len(bytes))

FirstNewline(bytes) ==
    IF \E i \in DOMAIN bytes : bytes[i] = "\n"
    THEN CHOOSE i \in DOMAIN bytes :
            bytes[i] = "\n" /\ \A j \in 1..(i - 1) : bytes[j] # "\n"
    ELSE 0

\* BufRead::lines drops the "\n" ending a line, and a "\r" before it
StripCR(line) ==
    IF line # <<>> /\ line[Len(line)] = "\r"
    THEN SubSeq(line, 1, Len(line) - 1) ELSE line

\* reader.lines(): the lines of the bytes; a last line need not end in "\n"
RECURSIVE Lines(_)
Lines(bytes) ==
    IF bytes = <<>> THEN <<>>
    ELSE LET nl == FirstNewline(bytes)
         IN IF nl = 0 THEN <<bytes>>
            ELSE <<StripCR(SubSeq(bytes, 1, nl - 1))>>
                 \o Lines(SubSeq(bytes, nl + 1, Len(bytes)))

\* u8::is_ascii_whitespace
IsAsciiWhitespace(c) == c \in {" ", "\t", "\n", "\f", "\r"}

RECURSIVE TrimStart(_)
TrimStart(s) ==
    IF s # <<>> /\ IsAsciiWhitespace(Head(s)) THEN TrimStart(Tail(s)) ELSE s

RECURSIVE TrimEnd(_)
TrimEnd(s) ==
    IF s # <<>> /\ IsAsciiWhitespace(s[Len(s)])
    THEN TrimEnd(SubSeq(s, 1, Len(s) - 1)) ELSE s

\* a trim of the end of the line only
TrimAsciiEnd(s) == TrimEnd(s)

\* str::trim_ascii
TrimAscii(s) == TrimEnd(TrimStart(s))

\* a line lines() yields as Ok: its bytes are valid UTF-8
IsUtf8(line) == \A i \in DOMAIN line : line[i] # Invalid

\* the loop without `if !line.is_empty()`: every line is pushed
RECURSIVE ReadLoopKeepEmpty(_, _)
ReadLoopKeepEmpty(lines, acc) ==
    IF lines = <<>> THEN [ok |-> TRUE, names |-> acc]
    ELSE IF ~IsUtf8(Head(lines)) THEN [ok |-> FALSE, names |-> acc]
    ELSE ReadLoopKeepEmpty(Tail(lines), Append(acc, TrimAscii(Head(lines))))

\* the for loop over reader.lines(): an Err line ends it, an empty trimmed
\* line is skipped, any other is pushed
RECURSIVE ReadLoop(_, _)
ReadLoop(lines, acc) ==
    IF lines = <<>> THEN [ok |-> TRUE, names |-> acc]
    ELSE IF ~IsUtf8(Head(lines)) THEN [ok |-> FALSE, names |-> acc]
    ELSE LET line == TrimAscii(Head(lines))
         IN ReadLoop(Tail(lines), IF line # <<>> THEN Append(acc, line) ELSE acc)

\* an insert that keeps the value a key already has
InsertIfAbsent(m, k, v) ==
    [x \in (DOMAIN m) \cup {k} |-> IF x \in DOMAIN m THEN m[x] ELSE v]

\* HashMap::insert
Insert(m, k, v) == [x \in (DOMAIN m) \cup {k} |-> IF x = k THEN v ELSE m[x]]

\* keys.zip(vals).collect::<HashMap<_, _>>(): the pairs inserted in order
RECURSIVE Collect(_, _, _, _)
Collect(keys, vals, i, m) ==
    IF i > Min(Len(keys), Len(vals)) THEN m
    ELSE Collect(keys, vals, i + 1, Insert(m, keys[i], vals[i]))

\* read_back with `<` for `!=` in the check of the number of lines
ReadBackOfFewerOnly(names, bytes, cur, seekOk) ==
    IF ~seekOk
    THEN [result |-> "io", error |-> "seek", read |-> <<>>, names |-> <<>>, map |-> <<>>]
    ELSE LET data == SubSeq(bytes, 1, Len(bytes))
             r == ReadLoop(Lines(data), <<>>)
         IN IF ~r.ok
            THEN [result |-> "io", error |-> "read", read |-> data, names |-> r.names,
                  map |-> <<>>]
            ELSE IF Len(r.names) < Len(names)
            THEN [result |-> "mismatch", error |-> "mismatch", read |-> data,
                  names |-> r.names, map |-> <<>>]
            ELSE [result |-> "ok", error |-> "none", read |-> data, names |-> r.names,
                  map |-> Collect(names, r.names, 1, <<>>)]

\* read_back on the bytes of the handle: how it ends, the error it returns, the
\* bytes it read, new_names and the map
ReadBackOf(names, bytes, cur, seekOk) ==
    IF ~seekOk
    THEN [result |-> "io", error |-> "seek", read |-> <<>>, names |-> <<>>, map |-> <<>>]
    ELSE LET data == ReadFrom(bytes, cur)
             r == ReadLoop(Lines(data), <<>>)
         IN IF ~r.ok
            THEN [result |-> "io", error |-> "read", read |-> data, names |-> r.names,
                  map |-> <<>>]
            ELSE IF Len(r.names) # Len(names)
            THEN [result |-> "mismatch", error |-> "mismatch", read |-> data,
                  names |-> r.names, map |-> <<>>]
            ELSE [result |-> "ok", error |-> "none", read |-> data, names |-> r.names,
                  map |-> Collect(names, r.names, 1, <<>>)]

(***************************************************************************)
(* fs::rename(old, new) on the files of the directory.                     *)
(***************************************************************************)
rename(files, old, new) ==
    IF old \notin DOMAIN files THEN [ok |-> FALSE, files |-> files]
    ELSE IF old = new THEN [ok |-> TRUE, files |-> files]
    ELSE [ok |-> TRUE,
          files |-> [x \in ((DOMAIN files) \ {old}) \cup {new} |->
                        IF x = new THEN files[old] ELSE files[x]]]

(***************************************************************************)
(* The inputs.                                                             *)
(***************************************************************************)
\* the names of a run of vrename: one character each
FileNames == {<<c>> : c \in FileChars}

\* the argument lists of a run of vrename (Inputs::from_env: never empty)
RunArgs == UNION {[1..n -> FileNames] : n \in 1..MaxNames}

\* the directory at the start: each file holds its own name as its content
Directory(S) == [x \in S |-> x]

\* the bytes the editor leaves in a run of vrename
EditContents == Seqs(EditChars, MaxEdit)

\* the original names handed to read_back alone
ReadArgs == UNION {[1..n -> {<<"a">>, <<"b">>}] : n \in 0..MaxNames}

\* the edited files handed to read_back alone
ReadContents == Seqs(ContentChars, MaxContent)

\* the names a string of name characters and separators lists
RECURSIVE SplitNames(_, _)
SplitNames(s, name) ==
    IF s = <<>> THEN <<name>>
    ELSE IF Head(s) = Sep THEN <<name>> \o SplitNames(Tail(s), <<>>)
    ELSE SplitNames(Tail(s), Append(name, Head(s)))

\* the argument lists of the round trip: those written in at most MaxArgBytes
RoundTripArgs == {SplitNames(s, <<>>) : s \in Seqs(ArgChars \cup {Sep}, MaxArgBytes - 1)}

(***************************************************************************)
(* The states.                                                             *)
(***************************************************************************)
InitWith(args, files) ==
    /\ file_names \in args
    /\ fs0 \in files
    /\ fs = fs0
    /\ pc = "start"
    /\ tempExists = FALSE
    /\ pathContent = <<>>
    /\ handleContent = <<>>
    /\ cursor = 0
    /\ editorStatus = "none"
    /\ readResult = "none"
    /\ readContent = <<>>
    /\ pathAtRead = <<>>
    /\ new_names = <<>>
    /\ name_map = <<>>
    /\ pending = {}
    /\ renameCount = 0
    /\ err = "none"

Init == InitWith(RunArgs, {Directory(S) : S \in SUBSET FileNames})

InitRead == InitWith(ReadArgs, {Directory(Range(file_names))})

InitRoundTrip == InitWith(RoundTripArgs, {Directory(Range(file_names))})

\* name_file goes out of scope: NamedTempFile's drop removes the file at its path
Drop ==
    /\ tempExists' = FALSE
    /\ pathContent' = <<>>
    /\ handleContent' = <<>>
    /\ cursor' = 0

\* vrename returns Err(e) before read_back: `?` or bail!, name_file dropped
Fail(e) ==
    /\ pc' = "failed"
    /\ err' = e
    /\ Drop

\* NamedTempFile::new fails
ConstructCreateFails ==
    /\ pc = "start"
    /\ pc' = "failed"
    /\ err' = "create"
    /\ UNCHANGED <<file_names, fs0, fs, tempExists, pathContent, handleContent, cursor,
                   editorStatus, readResult, readContent, pathAtRead, new_names,
                   name_map, pending, renameCount>>

\* NameFile::new with the temp file created
ConstructWrite ==
    /\ pc = "start"
    /\ \E failAt \in 0..WritesOf(file_names) :
          LET r == WriteBlock(file_names, failAt)
          IN IF r.ok
             THEN /\ pc' = "edit"
                  /\ tempExists' = TRUE
                  /\ pathContent' = r.disk
                  /\ handleContent' = r.disk
                  /\ cursor' = Len(r.disk)
                  /\ err' = "none"
             ELSE Fail("write")
    /\ UNCHANGED <<file_names, fs0, fs, editorStatus, readResult, readContent,
                   pathAtRead, new_names, name_map, pending, renameCount>>

\* process::Command::output() fails
EditorLaunchFails ==
    /\ pc = "edit"
    /\ editorStatus' = "launchfail"
    /\ Fail("launch")
    /\ UNCHANGED <<file_names, fs0, fs, readResult, readContent, pathAtRead,
                   new_names, name_map, pending, renameCount>>

\* the exit status of the editor not checked: vrename goes on to read_back
EditorExitNonzeroIgnored ==
    /\ pc = "edit"
    /\ editorStatus' = "nonzero"
    /\ pc' = "read"
    /\ UNCHANGED <<file_names, fs0, fs, tempExists, pathContent, handleContent, cursor,
                   readResult, readContent, pathAtRead, new_names, name_map, pending,
                   renameCount, err>>

\* process::exit(1) where the status is checked: no destructor runs
EditorExitNonzeroExits ==
    /\ pc = "edit"
    /\ editorStatus' = "nonzero"
    /\ pc' = "failed"
    /\ err' = "status"
    /\ UNCHANGED <<file_names, fs0, fs, tempExists, pathContent, handleContent, cursor,
                   readResult, readContent, pathAtRead, new_names, name_map, pending,
                   renameCount>>

\* the editor exits with a failure status
EditorExitNonzero ==
    /\ pc = "edit"
    /\ editorStatus' = "nonzero"
    /\ Fail("status")
    /\ UNCHANGED <<file_names, fs0, fs, readResult, readContent, pathAtRead,
                   new_names, name_map, pending, renameCount>>

\* the editor exits with status zero and has not written the file
EditorQuit ==
    /\ pc = "edit"
    /\ editorStatus' = "zero"
    /\ pc' = "read"
    /\ UNCHANGED <<file_names, fs0, fs, tempExists, pathContent, handleContent, cursor,
                   readResult, readContent, pathAtRead, new_names, name_map, pending,
                   renameCount, err>>

\* the editor rewrites the file in place (as fs::File::create(path) does) and
\* exits with status zero
EditorSaveInPlace(contents) ==
    /\ pc = "edit"
    /\ \E c \in contents :
          /\ pathContent' = c
          /\ handleContent' = c
    /\ editorStatus' = "zero"
    /\ pc' = "read"
    /\ UNCHANGED <<file_names, fs0, fs, tempExists, cursor, readResult, readContent,
                   pathAtRead, new_names, name_map, pending, renameCount, err>>

\* the editor writes a new file, renames it over the path and exits with status
\* zero: the open handle still refers to the file NameFile::new wrote
EditorSaveReplace(contents) ==
    /\ pc = "edit"
    /\ \E c \in contents : pathContent' = c
    /\ editorStatus' = "zero"
    /\ pc' = "read"
    /\ UNCHANGED <<file_names, fs0, fs, tempExists, handleContent, cursor, readResult,
                   readContent, pathAtRead, new_names, name_map, pending, renameCount,
                   err>>

\* name_file.read_back()?: self is consumed, so the temp file is dropped however
\* read_back ends
ReadBack ==
    /\ pc = "read"
    /\ \E seekOk \in BOOLEAN :
          LET r == ReadBackOf(file_names, handleContent, cursor, seekOk)
          IN /\ readResult' = r.result
             /\ readContent' = r.read
             /\ new_names' = r.names
             /\ name_map' = r.map
             /\ pending' = DOMAIN r.map
             /\ pc' = IF r.result # "ok" THEN "failed"
                      ELSE IF DOMAIN r.map = {} THEN "done" ELSE "rename"
             /\ err' = r.error
    /\ pathAtRead' = pathContent
    /\ Drop
    /\ UNCHANGED <<file_names, fs0, fs, editorStatus, renameCount>>

\* the iteration with the arguments of fs::rename swapped
RenameSwapped ==
    /\ pc = "rename"
    /\ \E old \in pending :
          LET r == rename(fs, name_map[old], old)
          IN /\ renameCount' = renameCount + 1
             /\ fs' = r.files
             /\ IF r.ok
                THEN /\ pending' = pending \ {old}
                     /\ pc' = IF pending \ {old} = {} THEN "done" ELSE "rename"
                     /\ err' = "none"
                ELSE /\ pending' = pending
                     /\ pc' = "failed"
                     /\ err' = "rename"
    /\ UNCHANGED <<file_names, fs0, tempExists, pathContent, handleContent, cursor,
                   editorStatus, readResult, readContent, pathAtRead, new_names,
                   name_map>>

\* one iteration of `for (old_name, new_name) in &name_map`; a HashMap iterates
\* in any order
Rename ==
    /\ pc = "rename"
    /\ \E old \in pending :
          LET r == rename(fs, old, name_map[old])
          IN /\ renameCount' = renameCount + 1
             /\ fs' = r.files
             /\ IF r.ok
                THEN /\ pending' = pending \ {old}
                     /\ pc' = IF pending \ {old} = {} THEN "done" ELSE "rename"
                     /\ err' = "none"
                ELSE /\ pending' = pending
                     /\ pc' = "failed"
                     /\ err' = "rename"
    /\ UNCHANGED <<file_names, fs0, tempExists, pathContent, handleContent, cursor,
                   editorStatus, readResult, readContent, pathAtRead, new_names,
                   name_map>>

\* a run of vrename
Next ==
    \/ ConstructCreateFails
    \/ ConstructWrite
    \/ EditorLaunchFails
    \/ EditorExitNonzero
    \/ EditorQuit
    \/ EditorSaveInPlace(EditContents)
    \/ EditorSaveReplace(EditContents)
    \/ ReadBack
    \/ Rename

Spec == Init /\ [][Next]_vars

\* NameFile::new, an edit in place and read_back, as the tests of name_file.rs do
NextRead ==
    \/ ConstructWrite
    \/ EditorSaveInPlace(ReadContents)
    \/ ReadBack

SpecRead == InitRead /\ [][NextRead]_vars

\* NameFile::new, then read_back of the file as it was written
NextRoundTrip ==
    \/ ConstructWrite
    \/ EditorQuit
    \/ ReadBack

SpecRoundTrip == InitRoundTrip /\ [][NextRoundTrip]_vars

(***************************************************************************)
(* What the claims speak of, stated on the bytes of the edited file        *)
(* without the loop of read_back.                                          *)
(***************************************************************************)
\* the offsets at which a line of the file starts
LineStarts(c) == {i \in 1..Len(c) : i = 1 \/ c[i - 1] = "\n"}

\* the line starting at offset i, without the "\n" ending it
LineAt(c, i) ==
    LET ends == {j \in i..Len(c) : c[j] = "\n"}
        last == IF ends = {} THEN Len(c)
                ELSE (CHOOSE j \in ends : \A k \in ends : j <= k) - 1
    IN SubSeq(c, i, last)

\* a line without the ASCII whitespace around it
Trimmed(l) ==
    LET keep == {i \in DOMAIN l : ~IsAsciiWhitespace(l[i])}
    IN IF keep = {} THEN <<>>
       ELSE SubSeq(l, CHOOSE i \in keep : \A k \in keep : i <= k,
                      CHOOSE i \in keep : \A k \in keep : k <= i)

\* the offsets of the lines that are non-empty after trimming
NonEmptyStarts(c) == {i \in LineStarts(c) : Trimmed(LineAt(c, i)) # <<>>}

NonEmptyCount(c) == Cardinality(NonEmptyStarts(c))

\* the trimmed n-th non-empty line
EditedName(c, n) ==
    LET S == NonEmptyStarts(c)
    IN Trimmed(LineAt(c, CHOOSE i \in S : Cardinality({j \in S : j <= i}) = n))

ValidUtf8(c) == \A i \in DOMAIN c : c[i] # Invalid

\* the names, each as its own line ended by a newline
RECURSIVE AsWritten(_)
AsWritten(names) ==
    IF names = <<>> THEN <<>>
    ELSE Head(names) \o <<"\n">> \o AsWritten(Tail(names))

\* a name that is its own trimmed line: not empty, no ASCII whitespace at
\* either end, no newline inside
CleanName(n) ==
    /\ n # <<>>
    /\ ~IsAsciiWhitespace(n[1])
    /\ ~IsAsciiWhitespace(n[Len(n)])
    /\ \A i \in DOMAIN n : n[i] # "\n"

\* the last position of the name at position i
IsLast(names, i) == \A j \in (i + 1)..Len(names) : names[j] # names[i]

\* read_back has run
HasRead == readResult # "none"

\* the rewind of read_back did not fail
SeekOk == err # "seek"

(***************************************************************************)
(* C1                                                                      *)
(***************************************************************************)
\* C1, as stated: whenever the edited file has len(O) lines that are non-empty
\* after trimming, read_back succeeds and every O[i] maps to the trimmed i-th
\* non-empty line.  (Read for a file system on which the rewind does not fail.)
C1_AsStated ==
    (HasRead /\ SeekOk /\ NonEmptyCount(pathAtRead) = Len(file_names)) =>
        /\ readResult = "ok"
        /\ \A i \in DOMAIN file_names :
              name_map[file_names[i]] = EditedName(pathAtRead, i)

\* C1, amended: when the edited file is valid UTF-8 with len(O) lines that are
\* non-empty after trimming and the rewind does not fail, read_back succeeds
\* and every O[i] that does not occur again later in O maps to the trimmed i-th
\* non-empty line.
C1_PositionalPairing ==
    (/\ HasRead
     /\ SeekOk
     /\ ValidUtf8(readContent)
     /\ NonEmptyCount(readContent) = Len(file_names)) =>
        /\ readResult = "ok"
        /\ \A i \in DOMAIN file_names :
              IsLast(file_names, i) =>
                  name_map[file_names[i]] = EditedName(readContent, i)

\* two different names mapped to lines that had whitespace to trim
C1_Witness ==
    /\ readResult = "ok"
    /\ Len(file_names) = 2
    /\ file_names[1] # file_names[2]
    /\ \E i \in LineStarts(pathAtRead) :
          /\ LineAt(pathAtRead, i) # Trimmed(LineAt(pathAtRead, i))
          /\ Trimmed(LineAt(pathAtRead, i)) # <<>>

(***************************************************************************)
(* C2                                                                      *)
(***************************************************************************)
\* C2, as stated: read_back returns a mapping if and only if the number of
\* non-empty trimmed lines equals the number of names, and fails with the
\* structural mismatch, returning no mapping, whenever the numbers differ.
\* (Read for a file system on which the rewind does not fail.)
C2_AsStated ==
    (HasRead /\ SeekOk) =>
        /\ (readResult = "ok") <=> (NonEmptyCount(pathAtRead) = Len(file_names))
        /\ (NonEmptyCount(pathAtRead) # Len(file_names)) =>
              (readResult = "mismatch" /\ DOMAIN name_map = {})

\* C2, amended: read_back returns a mapping if and only if the rewind does not
\* fail, the file is valid UTF-8 and the number of non-empty trimmed lines
\* equals the number of names; with no I/O error and the numbers different it
\* fails with the structural mismatch; with an I/O error it fails with that
\* error; a failure returns no mapping.
C2_MappingIffCount ==
    HasRead =>
        /\ (readResult = "ok") <=>
              (/\ SeekOk
               /\ ValidUtf8(readContent)
               /\ NonEmptyCount(readContent) = Len(file_names))
        /\ (/\ SeekOk
            /\ ValidUtf8(readContent)
            /\ NonEmptyCount(readContent) # Len(file_names)) => readResult = "mismatch"
        /\ (~SeekOk \/ ~ValidUtf8(readContent)) => readResult = "io"
        /\ (readResult # "ok") => (DOMAIN name_map = {} /\ pc = "failed")

\* a mismatch from a line that trimming made empty: as many lines as names
C2_Witness ==
    /\ readResult = "mismatch"
    /\ Len(file_names) = 2
    /\ Cardinality(LineStarts(pathAtRead)) = 2
    /\ NonEmptyCount(pathAtRead) = 1

(***************************************************************************)
(* C3                                                                      *)
(***************************************************************************)
\* the lines of only whitespace that are put into the file
BlankLines == {<<>>, <<" ">>, <<"\t", " ">>, <<"\r">>}

\* the file with a blank line put in before the line at offset i, or after
\* the last line
WithBlankLine(c, i, blank) ==
    IF i <= Len(c) \/ c = <<>> \/ c[Len(c)] = "\n"
    THEN SubSeq(c, 1, i - 1) \o blank \o <<"\n">> \o SubSeq(c, i, Len(c))
    ELSE c \o <<"\n">> \o blank

\* C3: a line that is empty or only whitespace, put into the edited file before
\* any line or after the last one, leaves what read_back returns (the mapping,
\* or the failure) as it is; so does taking such a line out.
C3_BlankLinesIgnored ==
    HasRead =>
        \A i \in LineStarts(readContent) \cup {Len(readContent) + 1} :
            \A blank \in BlankLines :
                LET r == ReadBackOf(file_names,
                                    WithBlankLine(readContent, i, blank), 0, SeekOk)
                IN /\ r.result = readResult
                   /\ r.map = name_map
                   /\ r.names = new_names

\* a mapping read from a file that has more lines than names: a blank line
\* was skipped
C3_Witness ==
    /\ readResult = "ok"
    /\ Len(file_names) = 2
    /\ Cardinality(LineStarts(pathAtRead)) > 2

(***************************************************************************)
(* C4                                                                      *)
(***************************************************************************)
\* C4, as stated: read back with the file holding the names as NameFile::new
\* writes them, read_back succeeds and every name maps to itself.  (Read for a
\* file system on which the rewind does not fail.)
C4_AsStated ==
    (/\ HasRead
     /\ SeekOk
     /\ Len(file_names) > 0
     /\ pathAtRead = AsWritten(file_names)) =>
        /\ readResult = "ok"
        /\ \A i \in DOMAIN file_names : name_map[file_names[i]] = file_names[i]

\* C4, amended: for names that are not empty, have no ASCII whitespace at
\* either end and no newline inside, read back with the file holding the names
\* as NameFile::new writes them and the rewind not failing, read_back succeeds
\* and every name maps to itself.
C4_IdentityRoundTrip ==
    (/\ HasRead
     /\ SeekOk
     /\ Len(file_names) > 0
     /\ \A i \in DOMAIN file_names : CleanName(file_names[i])
     /\ pathAtRead = AsWritten(file_names)) =>
        /\ readResult = "ok"
        /\ \A i \in DOMAIN file_names : name_map[file_names[i]] = file_names[i]

\* two different names, one with a space inside, read back as themselves
C4_Witness ==
    /\ readResult = "ok"
    /\ Len(file_names) = 2
    /\ file_names[1] # file_names[2]
    /\ \E i \in DOMAIN file_names : Len(file_names[i]) = 3
    /\ \A i \in DOMAIN file_names : CleanName(file_names[i])
    /\ pathAtRead = AsWritten(file_names)

(***************************************************************************)
(* C5                                                                      *)
(***************************************************************************)
\* C5: when read_back succeeds the mapping has one key per distinct original
\* name, and a name maps to the line paired with its last position.
C5_LastWriteWins ==
    (readResult = "ok") =>
        /\ DOMAIN name_map = Range(file_names)
        /\ \A i \in DOMAIN file_names :
              IsLast(file_names, i) =>
                  name_map[file_names[i]] = EditedName(readContent, i)

\* a name given twice and paired with two different lines
C5_Witness ==
    /\ readResult = "ok"
    /\ Len(file_names) = 2
    /\ file_names[1] = file_names[2]
    /\ EditedName(pathAtRead, 1) # EditedName(pathAtRead, 2)
    /\ Cardinality(DOMAIN name_map) = 1

(***************************************************************************)
(* C6                                                                      *)
(***************************************************************************)
\* C6: when NameFile::new has returned successfully (vrename is about to
\* start the editor) the file holds every name as its own line ended by a
\* newline, in order.
C6_ConstructWritesAll ==
    (pc = "edit") => (tempExists /\ pathContent = AsWritten(file_names))

(***************************************************************************)
(* C7                                                                      *)
(***************************************************************************)
\* NameFile::new returned successfully
Constructed == pc \in {"edit", "read", "rename", "done"} \/ editorStatus # "none"

\* C7: in every terminal state reached after NameFile::new succeeded, no file
\* exists at the path of the temp file.
C7_TempFileReleased ==
    (pc \in {"done", "failed"} /\ Constructed) => ~tempExists

\* the run ended by a failing rename
C7_Witness ==
    /\ pc = "failed"
    /\ err = "rename"
    /\ Constructed
    /\ ~tempExists

(***************************************************************************)
(* C8                                                                      *)
(***************************************************************************)
\* C8: a rename is attempted only after the editor exited with status zero and
\* read_back succeeded; after a launch failure or a nonzero exit read_back is
\* not run and the run ends with an error; after a failure of read_back no
\* file has been renamed.
C8_RenameOnlyAfterSuccess ==
    /\ (renameCount > 0 \/ pc = "rename") =>
          (editorStatus = "zero" /\ readResult = "ok")
    /\ HasRead => editorStatus = "zero"
    /\ (editorStatus \in {"launchfail", "nonzero"}) =>
          (pc = "failed" /\ err # "none" /\ ~HasRead /\ renameCount = 0 /\ fs = fs0)
    /\ (readResult \in {"io", "mismatch"}) =>
          (pc = "failed" /\ err # "none" /\ renameCount = 0 /\ fs = fs0)

\* a file renamed after the editor exited with status zero
C8_Witness ==
    /\ renameCount > 0
    /\ fs # fs0
    /\ editorStatus = "zero"
    /\ readResult = "ok"

(***************************************************************************)
(* C9                                                                      *)
(***************************************************************************)
\* C9: the edited names read_back parses are those of the file at path() at
\* the time of reading, from its first byte on: its trimmed non-empty lines, in
\* order.
C9_ReadsCurrentContents ==
    (HasRead /\ SeekOk /\ ValidUtf8(pathAtRead)) =>
        /\ Len(new_names) = NonEmptyCount(pathAtRead)
        /\ \A i \in DOMAIN new_names : new_names[i] = EditedName(pathAtRead, i)

(***************************************************************************)
(* C10                                                                     *)
(***************************************************************************)
\* the new name of the original name at position i
NewName(i) == name_map[file_names[i]]

\* the original names are pairwise distinct existing files, the new names are
\* pairwise distinct, and each new name is its own original name or names no
\* file existing at the start
SafeRenames ==
    /\ \A i, j \in DOMAIN file_names : file_names[i] = file_names[j] => i = j
    /\ \A i \in DOMAIN file_names : file_names[i] \in DOMAIN fs0
    /\ \A i, j \in DOMAIN file_names : NewName(i) = NewName(j) => i = j
    /\ \A i \in DOMAIN file_names :
          NewName(i) = file_names[i] \/ NewName(i) \notin DOMAIN fs0

\* the directory with the content of every original name under its new name
\* and every other file as it was
Renamed ==
    LET news == {NewName(i) : i \in DOMAIN file_names}
    IN [x \in ((DOMAIN fs0) \ Range(file_names)) \cup news |->
           IF x \in news
           THEN fs0[file_names[CHOOSE i \in DOMAIN file_names : NewName(i) = x]]
           ELSE fs0[x]]

====
